---- MODULE Spec2Model ----
(***************************************************************************)
(* State-machine model of finmodel/reader.py: ExcelReader's table          *)
(* detection (detect_key_value_tables, detect_tables), header location     *)
(* (detect_header_row), materialisation (read_table,                       *)
(* read_key_value_region) and their composition (read_all_tables).         *)
(*                                                                         *)
(* A cell value is a record [k, s, n]: k = "none" (Python None),           *)
(* k = "str" (a str, s its characters) or k = "num" (an int, n its value). *)
(* A worksheet is a sequence of rows, a row a sequence of cell values.     *)
(* A Python None row index is NoRow.                                       *)
(***************************************************************************)
EXTENDS Integers, Sequences, FiniteSets, TLC

VARIABLES
    wb,                 \* self.workbook: sheet name -> worksheet grid
    active,             \* self.workbook.active: name of the active sheet
    sheet_name,         \* the sheet_name argument of the running call
    pc,                 \* position of the running call
    row_idx,            \* detect_key_value_tables: loop variable
    current_title,      \* detect_key_value_tables: captured title (None or str)
    current_title_row,  \* detect_key_value_tables: row of the captured title
    current_start,      \* detect_key_value_tables: first row of the open span
    current_end,        \* detect_key_value_tables: last row of the open span
    tables,             \* the detector's result list (of TableRegion)
    min_rows,           \* detect_tables: the min_rows argument
    data_cells,         \* detect_tables: sorted list of populated (row, col)
    i,                  \* detect_tables: loop variable
    current_region,     \* detect_tables: the running region
    region,             \* detect_header_row / read_table: the region argument
    offset,             \* detect_header_row: loop variable
    header_row,         \* detect_header_row: the returned row (NoRow = None)
    has_header,         \* read_table: the has_header argument
    auto_detect_header, \* read_table: the auto_detect_header argument
    df,                 \* read_table / read_key_value_region: the returned DataFrame
    key_value,          \* read_all_tables: the key_value argument
    regions,            \* read_all_tables: the detected regions
    all_tables,         \* read_all_tables: the result list of (name, table)
    first_tables,       \* caller: the regions returned by its first detection
    run                 \* caller: number of the detection call it is making

vars == <<wb, active, sheet_name, pc, row_idx, current_title, current_title_row,
          current_start, current_end, tables, min_rows, data_cells, i,
          current_region, region, offset, header_row, has_header,
          auto_detect_header, df, key_value, regions, all_tables,
          first_tables, run>>

kvVars == <<row_idx, current_title, current_title_row, current_start, current_end>>
genVars == <<min_rows, data_cells, i, current_region>>
hdrVars == <<region, offset, header_row, has_header, auto_detect_header, df>>
bookVars == <<wb, active, sheet_name>>
allVars == <<key_value, regions, all_tables>>
callerVars == <<first_tables, run>>

----------------------------------------------------------------------------
(* Bounds of the model *)

KVMaxRow == 4
GenMaxRow == 4
MaxMinRows == 3
HdrMaxRow == 4
ReadMaxRow == 2
AllMaxRow == 5

----------------------------------------------------------------------------
(* Cell values and the Python conversions applied to them *)

NoRow == 0

None == [k |-> "none", s |-> <<>>, n |-> 0]
Str(chars) == [k |-> "str", s |-> chars, n |-> 0]
Num(v) == [k |-> "num", s |-> <<>>, n |-> v]

IsNone(v) == v.k = "none"
IsStr(v) == v.k = "str"
\* isinstance(v, (int, float)) and v is not None
IsNumeric(v) == v.k = "num"

Whitespace == {" "}

RECURSIVE LStrip(_)
LStrip(chars) ==
    IF chars = <<>> THEN <<>>
    ELSE IF Head(chars) \in Whitespace THEN LStrip(Tail(chars))
    ELSE chars

RECURSIVE RStrip(_)
RStrip(chars) ==
    IF chars = <<>> THEN <<>>
    ELSE IF chars[Len(chars)] \in Whitespace
         THEN RStrip(SubSeq(chars, 1, Len(chars) - 1))
    ELSE chars

\* str.strip()
Strip(chars) == RStrip(LStrip(chars))

DigitChars == <<"0", "1", "2", "3", "4", "5", "6", "7", "8", "9">>

\* str(n) of a non-negative int
RECURSIVE Digits(_)
Digits(v) ==
    IF v < 10 THEN <<DigitChars[v + 1]>>
    ELSE Digits(v \div 10) \o <<DigitChars[(v % 10) + 1]>>

\* str(value) of a cell value that is not None
PyStr(v) == IF IsStr(v) THEN v.s ELSE Digits(v.n)

\* Python truthiness of None, a str or an int
Truthy(v) ==
    CASE v.k = "none" -> FALSE
      [] v.k = "str" -> v.s # <<>>
      [] v.k = "num" -> v.n # 0

\* f"Table_{n}"
TableName(v) == <<"T", "a", "b", "l", "e", "_">> \o Digits(v)

----------------------------------------------------------------------------
(* Worksheets *)

SheetNames == {"Data", "Other"}

\* ws.max_row
MaxRowOf(ws) == Len(ws)

\* ws.cell(r, c).value: a cell with no stored value reads as None
CellAt(ws, r, c) ==
    IF r \in 1..Len(ws) /\ c \in 1..Len(ws[r]) THEN ws[r][c] ELSE None

\* TableRegion(start_row, end_row, start_col, end_col, name, title_row)
TableRegion(sr, er, sc, ec, nm, tr) ==
    [start_row |-> sr, end_row |-> er, start_col |-> sc, end_col |-> ec,
     name |-> nm, title_row |-> tr]

BlankSheet == <<<<None, None>>>>

\* the grid after ws.cell(r, c) has been called for every cell of reg: the
\* worksheet creates each cell it is asked for, empty, so that max_row and
\* max_column grow to cover the region; the stored values do not change
Touch(ws, reg) ==
    IF reg.end_row < reg.start_row \/ reg.end_col < reg.start_col THEN ws
    ELSE LET nrows == IF reg.end_row > Len(ws) THEN reg.end_row ELSE Len(ws)
             ncols == IF reg.end_col > Len(ws[1]) THEN reg.end_col ELSE Len(ws[1])
         IN  [r \in 1..nrows |-> [c \in 1..ncols |-> CellAt(ws, r, c)]]

----------------------------------------------------------------------------
(* detect_key_value_tables *)

ColA == 1
ColB == 2
KVEndCol == 3

\* current_title or f"Table_{len(tables)+1}"
KVName(title, found) ==
    IF Truthy(title) THEN title.s ELSE TableName(Len(found) + 1)

\* KVEmit with the column span ending at the value column
KVEmitTwoCols(found, t, tr, s, e) ==
    Append(found, TableRegion(s, e, ColA, ColB, KVName(t, found), tr))

\* tables.append(TableRegion(...)) of the open span
KVEmit(found, t, tr, s, e) ==
    Append(found, TableRegion(s, e, ColA, KVEndCol, KVName(t, found), tr))

KVColA(ws, r) == CellAt(ws, r, ColA)
KVColB(ws, r) == CellAt(ws, r, ColB)

\* KVCall that goes on appending to the list of the previous call
KVCallKeepsTables ==
    /\ pc = "idle_kv"
    /\ pc' = "kv_scan"
    /\ row_idx' = 1
    /\ current_title' = None
    /\ current_title_row' = NoRow
    /\ current_start' = NoRow
    /\ current_end' = NoRow
    /\ UNCHANGED <<tables, bookVars, allVars, callerVars, genVars, hdrVars>>

\* entry of detect_key_value_tables: the locals before the loop
KVCall ==
    /\ pc = "idle_kv"
    /\ pc' = "kv_scan"
    /\ row_idx' = 1
    /\ current_title' = None
    /\ current_title_row' = NoRow
    /\ current_start' = NoRow
    /\ current_end' = NoRow
    /\ tables' = <<>>
    /\ UNCHANGED <<bookVars, allVars, callerVars, genVars, hdrVars>>

\* KVTitleRow with the new title captured before the open span is closed
KVTitleRowNewTitle ==
    /\ pc = "kv_scan"
    /\ row_idx <= MaxRowOf(wb[sheet_name])
    /\ ~IsNone(KVColA(wb[sheet_name], row_idx))
    /\ IsNone(KVColB(wb[sheet_name], row_idx))
    /\ current_title' = Str(Strip(PyStr(KVColA(wb[sheet_name], row_idx))))
    /\ current_title_row' = row_idx
    /\ tables' = IF current_start # NoRow
                 THEN KVEmit(tables, current_title', current_title_row',
                             current_start, current_end)
                 ELSE tables
    /\ current_start' = NoRow
    /\ current_end' = NoRow
    /\ row_idx' = row_idx + 1
    /\ UNCHANGED <<pc, bookVars, allVars, callerVars, genVars, hdrVars>>

\* KVTitleRow that saves the open span and leaves it open under the new title
KVTitleRowKeepsSpan ==
    /\ pc = "kv_scan"
    /\ row_idx <= MaxRowOf(wb[sheet_name])
    /\ ~IsNone(KVColA(wb[sheet_name], row_idx))
    /\ IsNone(KVColB(wb[sheet_name], row_idx))
    /\ tables' = IF current_start # NoRow
                 THEN KVEmit(tables, current_title, current_title_row,
                             current_start, current_end)
                 ELSE tables
    /\ current_title' = Str(Strip(PyStr(KVColA(wb[sheet_name], row_idx))))
    /\ current_title_row' = row_idx
    /\ row_idx' = row_idx + 1
    /\ UNCHANGED <<pc, current_start, current_end, bookVars, allVars, callerVars, genVars, hdrVars>>

\* loop body, title row: A has a value, B is empty
KVTitleRow ==
    /\ pc = "kv_scan"
    /\ row_idx <= MaxRowOf(wb[sheet_name])
    /\ ~IsNone(KVColA(wb[sheet_name], row_idx))
    /\ IsNone(KVColB(wb[sheet_name], row_idx))
    /\ tables' = IF current_start # NoRow
                 THEN KVEmit(tables, current_title, current_title_row,
                             current_start, current_end)
                 ELSE tables
    /\ current_title' = Str(Strip(PyStr(KVColA(wb[sheet_name], row_idx))))
    /\ current_title_row' = row_idx
    /\ current_start' = NoRow
    /\ current_end' = NoRow
    /\ row_idx' = row_idx + 1
    /\ UNCHANGED <<pc, bookVars, allVars, callerVars, genVars, hdrVars>>

\* loop body, data row: A and B both have values
KVDataRow ==
    /\ pc = "kv_scan"
    /\ row_idx <= MaxRowOf(wb[sheet_name])
    /\ ~IsNone(KVColA(wb[sheet_name], row_idx))
    /\ ~IsNone(KVColB(wb[sheet_name], row_idx))
    /\ current_start' = IF current_start = NoRow THEN row_idx ELSE current_start
    /\ current_end' = row_idx
    /\ row_idx' = row_idx + 1
    /\ UNCHANGED <<pc, current_title, current_title_row, tables,
                   bookVars, allVars, callerVars, genVars, hdrVars>>

\* KVBlankRow that saves the open span without clearing it
KVBlankRowNoClear ==
    /\ pc = "kv_scan"
    /\ row_idx <= MaxRowOf(wb[sheet_name])
    /\ IsNone(KVColA(wb[sheet_name], row_idx))
    /\ IsNone(KVColB(wb[sheet_name], row_idx))
    /\ tables' = IF current_start # NoRow /\ current_end # NoRow
                 THEN KVEmit(tables, current_title, current_title_row,
                             current_start, current_end)
                 ELSE tables
    /\ row_idx' = row_idx + 1
    /\ UNCHANGED <<pc, current_title, current_title_row, current_start,
                   current_end, bookVars, allVars, callerVars, genVars, hdrVars>>

\* KVBlankRow that also forgets the open title
KVBlankRowClearsTitle ==
    /\ pc = "kv_scan"
    /\ row_idx <= MaxRowOf(wb[sheet_name])
    /\ IsNone(KVColA(wb[sheet_name], row_idx))
    /\ IsNone(KVColB(wb[sheet_name], row_idx))
    /\ IF current_start # NoRow /\ current_end # NoRow
       THEN /\ tables' = KVEmit(tables, current_title, current_title_row,
                                current_start, current_end)
            /\ current_start' = NoRow
            /\ current_end' = NoRow
       ELSE UNCHANGED <<tables, current_start, current_end>>
    /\ current_title' = None
    /\ current_title_row' = NoRow
    /\ row_idx' = row_idx + 1
    /\ UNCHANGED <<pc, bookVars, allVars, callerVars, genVars, hdrVars>>

\* loop body, empty row: A and B both empty
KVBlankRow ==
    /\ pc = "kv_scan"
    /\ row_idx <= MaxRowOf(wb[sheet_name])
    /\ IsNone(KVColA(wb[sheet_name], row_idx))
    /\ IsNone(KVColB(wb[sheet_name], row_idx))
    /\ IF current_start # NoRow /\ current_end # NoRow
       THEN /\ tables' = KVEmit(tables, current_title, current_title_row,
                                current_start, current_end)
            /\ current_start' = NoRow
            /\ current_end' = NoRow
       ELSE UNCHANGED <<tables, current_start, current_end>>
    /\ row_idx' = row_idx + 1
    /\ UNCHANGED <<pc, current_title, current_title_row,
                   bookVars, allVars, callerVars, genVars, hdrVars>>

\* KVAsymmetricRow that treats the row as a data row of an open span
KVAsymmetricRowExtends ==
    /\ pc = "kv_scan"
    /\ row_idx <= MaxRowOf(wb[sheet_name])
    /\ IsNone(KVColA(wb[sheet_name], row_idx))
    /\ ~IsNone(KVColB(wb[sheet_name], row_idx))
    /\ current_end' = IF current_start # NoRow THEN row_idx ELSE current_end
    /\ row_idx' = row_idx + 1
    /\ UNCHANGED <<pc, current_title, current_title_row, current_start,
                   tables, bookVars, allVars, callerVars, genVars, hdrVars>>

\* KVAsymmetricRow that treats the row as an empty row and closes the open span
KVAsymmetricRowCloses ==
    /\ pc = "kv_scan"
    /\ row_idx <= MaxRowOf(wb[sheet_name])
    /\ IsNone(KVColA(wb[sheet_name], row_idx))
    /\ ~IsNone(KVColB(wb[sheet_name], row_idx))
    /\ IF current_start # NoRow /\ current_end # NoRow
       THEN /\ tables' = KVEmit(tables, current_title, current_title_row,
                                current_start, current_end)
            /\ current_start' = NoRow
            /\ current_end' = NoRow
       ELSE UNCHANGED <<tables, current_start, current_end>>
    /\ row_idx' = row_idx + 1
    /\ UNCHANGED <<pc, current_title, current_title_row,
                   bookVars, allVars, callerVars, genVars, hdrVars>>

\* loop body, A empty and B has a value: no branch of the if/elif chain runs
KVAsymmetricRow ==
    /\ pc = "kv_scan"
    /\ row_idx <= MaxRowOf(wb[sheet_name])
    /\ IsNone(KVColA(wb[sheet_name], row_idx))
    /\ ~IsNone(KVColB(wb[sheet_name], row_idx))
    /\ row_idx' = row_idx + 1
    /\ UNCHANGED <<pc, current_title, current_title_row, current_start,
                   current_end, tables, bookVars, allVars, callerVars, genVars, hdrVars>>

\* KVFinish that returns without saving the open span
KVFinishNoFlush ==
    /\ pc = "kv_scan"
    /\ row_idx > MaxRowOf(wb[sheet_name])
    /\ pc' = "kv_done"
    /\ UNCHANGED <<tables, kvVars, bookVars, allVars, callerVars, genVars, hdrVars>>

\* KVFinish that saves the span without testing that one is open
KVFinishUnguarded ==
    /\ pc = "kv_scan"
    /\ row_idx > MaxRowOf(wb[sheet_name])
    /\ tables' = KVEmit(tables, current_title, current_title_row,
                        current_start, current_end)
    /\ pc' = "kv_done"
    /\ UNCHANGED <<kvVars, bookVars, allVars, callerVars, genVars, hdrVars>>

\* after the loop: the last table, then return tables
KVFinish ==
    /\ pc = "kv_scan"
    /\ row_idx > MaxRowOf(wb[sheet_name])
    /\ tables' = IF current_start # NoRow /\ current_end # NoRow
                 THEN KVEmit(tables, current_title, current_title_row,
                             current_start, current_end)
                 ELSE tables
    /\ pc' = "kv_done"
    /\ UNCHANGED <<kvVars, bookVars, allVars, callerVars, genVars, hdrVars>>

KVNext ==
    \/ KVCall
    \/ KVTitleRow
    \/ KVDataRow
    \/ KVBlankRow
    \/ KVAsymmetricRow
    \/ KVFinish

\* sheets offered to the key-value detector: columns A and B
KVColAValues == {None, Str(<<" ", "b">>), Str(<<" ">>), Num(7)}
KVColBValues == {None, Num(5)}
KVRowKinds == {<<a, b>> : a \in KVColAValues, b \in KVColBValues}
KVSheets == UNION {[1..n -> KVRowKinds] : n \in 1..KVMaxRow}

NoRegion == TableRegion(NoRow, NoRow, NoRow, NoRow, <<>>, NoRow)
NoFrame == [columns |-> <<>>, index |-> <<>>, rows |-> <<>>]

\* the locals of calls that are not running
IdleLocals ==
    /\ row_idx = 0
    /\ current_title = None
    /\ current_title_row = NoRow
    /\ current_start = NoRow
    /\ current_end = NoRow
    /\ tables = <<>>
    /\ min_rows = 0
    /\ data_cells = <<>>
    /\ i = 0
    /\ current_region = [start_row |-> NoRow, end_row |-> NoRow, start_col |-> NoRow, end_col |-> NoRow]
    /\ region = NoRegion
    /\ offset = 0
    /\ header_row = NoRow
    /\ has_header = TRUE
    /\ auto_detect_header = TRUE
    /\ df = NoFrame
    /\ key_value = TRUE
    /\ regions = <<>>
    /\ all_tables = <<>>
    /\ first_tables = <<>>
    /\ run = 1

KVInit ==
    /\ \E ws \in KVSheets : wb = [nm \in SheetNames |->
                                    IF nm = "Data" THEN ws ELSE BlankSheet]
    /\ active = "Data"
    /\ sheet_name = "Data"
    /\ pc = "idle_kv"
    /\ IdleLocals

SpecKV == KVInit /\ [][KVNext]_vars

----------------------------------------------------------------------------
(* detect_tables *)

\* the populated (row, col) pairs of one row, by increasing column
CellsOfRow(ws, r) ==
    SelectSeq([c \in 1..Len(ws[r]) |-> <<r, c>>],
              LAMBDA p : ~IsNone(ws[p[1]][p[2]]))

\* the enumerate loops over ws.iter_rows(values_only=True)
RECURSIVE CollectCells(_, _)
CollectCells(ws, r) ==
    IF r > Len(ws) THEN <<>>
    ELSE CellsOfRow(ws, r) \o CollectCells(ws, r + 1)

\* tuple order of (row, col) pairs
PairLess(p, q) == p[1] < q[1] \/ (p[1] = q[1] /\ p[2] < q[2])

RECURSIVE InsertPair(_, _)
InsertPair(p, sorted) ==
    IF sorted = <<>> THEN <<p>>
    ELSE IF PairLess(p, Head(sorted)) THEN <<p>> \o sorted
    ELSE <<Head(sorted)>> \o InsertPair(p, Tail(sorted))

\* data_cells.sort()
RECURSIVE SortCells(_)
SortCells(cells) ==
    IF cells = <<>> THEN <<>>
    ELSE InsertPair(Head(cells), SortCells(Tail(cells)))

MinOf(S) == CHOOSE x \in S : \A y \in S : x <= y
MaxOf(S) == CHOOSE x \in S : \A y \in S : x >= y

ColsOf(cells) == {cells[j][2] : j \in 1..Len(cells)}

\* the current_region dict
RunningRegion(sr, er, sc, ec) ==
    [start_row |-> sr, end_row |-> er, start_col |-> sc, end_col |-> ec]

\* the first current_region: first populated row, columns of all data cells
GenFirstRegion(cells) ==
    RunningRegion(cells[1][1], cells[1][1], MinOf(ColsOf(cells)), MaxOf(ColsOf(cells)))

\* the region started after a gap: the columns are carried over
GenNewRegion(cur, curr_row) ==
    RunningRegion(curr_row, curr_row, cur.start_col, cur.end_col)

\* the gap test with the threshold off by one
GenIsGapWide(prev_row, curr_row) == curr_row - prev_row > 2

\* curr_row - prev_row > 1
GenIsGap(prev_row, curr_row) == curr_row - prev_row > 1

\* the row-count test without the + 1 of the inclusive span on the right side
GenEnoughRowsLax(cur, least) == cur.end_row - cur.start_row + 1 >= least - 1

\* end_row - start_row + 1 >= min_rows
GenEnoughRows(cur, least) == cur.end_row - cur.start_row + 1 >= least

\* name = ws.cell(start_row, start_col).value; if name: name = str(name).strip();
\* name or f"Table_{len(tables)+1}"
GenName(ws, cur, found) ==
    LET v == CellAt(ws, cur.start_row, cur.start_col)
        stripped == IF Truthy(v) THEN Str(Strip(PyStr(v))) ELSE v
    IN  IF Truthy(stripped) THEN stripped.s ELSE TableName(Len(found) + 1)

\* the conditional tables.append(TableRegion(...)) of the running region
GenEmit(ws, found, cur, least) ==
    IF GenEnoughRows(cur, least)
    THEN Append(found, TableRegion(cur.start_row, cur.end_row, cur.start_col,
                                   cur.end_col, GenName(ws, cur, found), NoRow))
    ELSE found

\* entry of detect_tables on a sheet with no populated cell: return []
GenCallEmpty ==
    /\ pc = "idle_gen"
    /\ SortCells(CollectCells(wb[sheet_name], 1)) = <<>>
    /\ data_cells' = <<>>
    /\ tables' = <<>>
    /\ pc' = "gen_done"
    /\ UNCHANGED <<min_rows, i, current_region, bookVars, allVars, callerVars, kvVars, hdrVars>>

\* entry of detect_tables: collect and sort the cells, first running region
GenCall ==
    /\ pc = "idle_gen"
    /\ SortCells(CollectCells(wb[sheet_name], 1)) # <<>>
    /\ data_cells' = SortCells(CollectCells(wb[sheet_name], 1))
    /\ tables' = <<>>
    /\ current_region' = GenFirstRegion(data_cells')
    /\ i' = 1
    /\ pc' = "gen_loop"
    /\ UNCHANGED <<min_rows, bookVars, allVars, callerVars, kvVars, hdrVars>>

\* loop body, gap of more than one row: close the running region, start a new one
\* (i is the Python index: data_cells[i-1] and data_cells[i] are the 1-based
\* elements i and i+1)
GenGapStep ==
    /\ pc = "gen_loop"
    /\ i < Len(data_cells)
    /\ GenIsGap(data_cells[i][1], data_cells[i + 1][1])
    /\ tables' = GenEmit(wb[sheet_name], tables, current_region, min_rows)
    /\ current_region' = GenNewRegion(current_region, data_cells[i + 1][1])
    /\ i' = i + 1
    /\ UNCHANGED <<pc, min_rows, data_cells, bookVars, allVars, callerVars, kvVars, hdrVars>>

\* loop body, no gap: the running region grows to the current row
GenExtendStep ==
    /\ pc = "gen_loop"
    /\ i < Len(data_cells)
    /\ ~GenIsGap(data_cells[i][1], data_cells[i + 1][1])
    /\ current_region' = [current_region EXCEPT !.end_row = data_cells[i + 1][1]]
    /\ i' = i + 1
    /\ UNCHANGED <<pc, tables, min_rows, data_cells, bookVars, allVars, callerVars, kvVars, hdrVars>>

\* after the loop: the last region, then return tables
GenFinish ==
    /\ pc = "gen_loop"
    /\ i >= Len(data_cells)
    /\ tables' = GenEmit(wb[sheet_name], tables, current_region, min_rows)
    /\ pc' = "gen_done"
    /\ UNCHANGED <<min_rows, data_cells, i, current_region, bookVars, allVars, callerVars, kvVars, hdrVars>>

GenNext ==
    \/ GenCallEmpty
    \/ GenCall
    \/ GenGapStep
    \/ GenExtendStep
    \/ GenFinish

\* sheets offered to the generic detector: two columns, GenMaxRow rows
GenColAValues == {None, Str(<<" ", "b">>), Num(0)}
GenColBValues == {None, Num(5)}
GenRowKinds == {<<a, b>> : a \in GenColAValues, b \in GenColBValues}
GenSheets == [1..GenMaxRow -> GenRowKinds]

GenInit ==
    /\ \E ws \in GenSheets : wb = [nm \in SheetNames |->
                                     IF nm = "Data" THEN ws ELSE BlankSheet]
    /\ active = "Data"
    /\ sheet_name = "Data"
    /\ pc = "idle_gen"
    /\ row_idx = 0
    /\ current_title = None
    /\ current_title_row = NoRow
    /\ current_start = NoRow
    /\ current_end = NoRow
    /\ tables = <<>>
    /\ min_rows \in 1..MaxMinRows
    /\ data_cells = <<>>
    /\ i = 0
    /\ current_region = RunningRegion(NoRow, NoRow, NoRow, NoRow)
    /\ region = NoRegion
    /\ offset = 0
    /\ header_row = NoRow
    /\ has_header = TRUE
    /\ auto_detect_header = TRUE
    /\ df = NoFrame
    /\ key_value = TRUE
    /\ regions = <<>>
    /\ all_tables = <<>>
    /\ first_tables = <<>>
    /\ run = 1

SpecGen == GenInit /\ [][GenNext]_vars

\* either detector, called on a freshly loaded workbook
DetectInit == KVInit \/ GenInit
DetectNext == KVNext \/ GenNext
SpecDetect == DetectInit /\ [][DetectNext]_vars

----------------------------------------------------------------------------
(* detect_header_row *)

\* [ws.cell(r, c).value for c in range(reg.start_col, reg.end_col + 1)]
RowValues(ws, reg, r) ==
    [c \in 1..(reg.end_col - reg.start_col + 1) |->
        CellAt(ws, r, reg.start_col + c - 1)]

\* sum(1 for v in row_values if isinstance(v, str))
StringCount(values) == Cardinality({c \in DOMAIN values : IsStr(values[c])})

\* sum(1 for v in next_row_values if isinstance(v, (int, float)) and v is not None)
NumericCount(values) == Cardinality({c \in DOMAIN values : IsNumeric(values[c])})

\* min(3, region.end_row - region.start_row + 1)
MaxCheckRows(reg) ==
    IF reg.end_row - reg.start_row + 1 < 3
    THEN reg.end_row - reg.start_row + 1 ELSE 3

\* all(v is not None for v in row_values)
AllPresent(values) == \A c \in DOMAIN values : ~IsNone(values[c])

\* string_count >= len(row_values) * 0.5 and numeric_count > 0
MostlyTextThenNumeric(first, second) ==
    /\ 2 * StringCount(first) >= Len(first)
    /\ NumericCount(second) > 0

\* the row is not the region's last and passes the text-then-numeric test
HdrRule2(ws, reg, r) ==
    /\ r < reg.end_row
    /\ MostlyTextThenNumeric(RowValues(ws, reg, r), RowValues(ws, reg, r + 1))

\* HdrRule3 without the test that the row is the region's first
HdrRule3AnyOffset(ws, reg, off) ==
    \A c \in DOMAIN RowValues(ws, reg, reg.start_row + off) :
        IsStr(RowValues(ws, reg, reg.start_row + off)[c])

\* offset == 0 and all(isinstance(v, str) for v in row_values)
HdrRule3(ws, reg, off) ==
    /\ off = 0
    /\ \A c \in DOMAIN RowValues(ws, reg, reg.start_row + off) :
          IsStr(RowValues(ws, reg, reg.start_row + off)[c])

\* entry of detect_header_row
HdrCall ==
    /\ pc = "idle_hdr"
    /\ offset' = 0
    /\ pc' = "hdr_loop"
    /\ UNCHANGED <<region, header_row, has_header, auto_detect_header, df,
                   tables, bookVars, allVars, callerVars, kvVars, genVars>>

\* loop body: a cell of the candidate row is None, continue
HdrSkipRow ==
    /\ pc = "hdr_loop"
    /\ offset < MaxCheckRows(region)
    /\ ~AllPresent(RowValues(wb[sheet_name], region, region.start_row + offset))
    /\ offset' = offset + 1
    /\ UNCHANGED <<pc, region, header_row, has_header, auto_detect_header, df,
                   tables, bookVars, allVars, callerVars, kvVars, genVars>>

\* loop body: the candidate row is returned, by either rule
HdrReturnRow ==
    /\ pc = "hdr_loop"
    /\ offset < MaxCheckRows(region)
    /\ AllPresent(RowValues(wb[sheet_name], region, region.start_row + offset))
    /\ \/ HdrRule2(wb[sheet_name], region, region.start_row + offset)
       \/ HdrRule3(wb[sheet_name], region, offset)
    /\ header_row' = region.start_row + offset
    /\ pc' = "hdr_done"
    /\ UNCHANGED <<region, offset, has_header, auto_detect_header, df,
                   tables, bookVars, allVars, callerVars, kvVars, genVars>>

\* loop body: the candidate row is fully populated and matches neither rule
HdrNextRow ==
    /\ pc = "hdr_loop"
    /\ offset < MaxCheckRows(region)
    /\ AllPresent(RowValues(wb[sheet_name], region, region.start_row + offset))
    /\ ~HdrRule2(wb[sheet_name], region, region.start_row + offset)
    /\ ~HdrRule3(wb[sheet_name], region, offset)
    /\ offset' = offset + 1
    /\ UNCHANGED <<pc, region, header_row, has_header, auto_detect_header, df,
                   tables, bookVars, allVars, callerVars, kvVars, genVars>>

\* HdrDefault that reports no header for every region
HdrDefaultNone ==
    /\ pc = "hdr_loop"
    /\ offset >= MaxCheckRows(region)
    /\ header_row' = NoRow
    /\ pc' = "hdr_done"
    /\ UNCHANGED <<region, offset, has_header, auto_detect_header, df,
                   tables, bookVars, allVars, callerVars, kvVars, genVars>>

\* after the loop: region.start_row if region.end_row > region.start_row else None
HdrDefault ==
    /\ pc = "hdr_loop"
    /\ offset >= MaxCheckRows(region)
    /\ header_row' = IF region.end_row > region.start_row
                     THEN region.start_row ELSE NoRow
    /\ pc' = "hdr_done"
    /\ UNCHANGED <<region, offset, has_header, auto_detect_header, df,
                   tables, bookVars, allVars, callerVars, kvVars, genVars>>

----------------------------------------------------------------------------
(* read_table *)

\* the data list: one list of cell values per row of the region
RegionData(ws, reg) ==
    [r \in 1..(reg.end_row - reg.start_row + 1) |->
        RowValues(ws, reg, reg.start_row + r - 1)]

\* the default labels 0..k-1 of a DataFrame axis
RangeIndex(k) == [c \in 1..k |-> Num(c - 1)]

\* a DataFrame: its column labels, its row labels and its rows
IndexedFrame(cols, idx, rws) == [columns |-> cols, index |-> idx, rows |-> rws]

\* a DataFrame built without an index: the rows are labelled 0..n-1
Frame(cols, rws) == IndexedFrame(cols, RangeIndex(Len(rws)), rws)

\* pd.DataFrame(data): positional column labels 0..k-1
PositionalFrame(data) == Frame(RangeIndex(Len(data[1])), data)

\* pd.DataFrame(data[1:], columns=data[0])
HeaderFrame(data) == Frame(data[1], Tail(data))

\* the body of read_table on worksheet ws
ReadTableFrame(ws, reg, hh, auto) ==
    LET data == RegionData(ws, reg)
    IN  IF data = <<>> THEN NoFrame
        ELSE IF auto /\ Len(data) > 1
             THEN IF MostlyTextThenNumeric(data[1], data[2])
                  THEN HeaderFrame(data)
                  ELSE PositionalFrame(data)
        ELSE IF hh /\ Len(data) > 1 THEN HeaderFrame(data)
        ELSE PositionalFrame(data)

\* ws = self.workbook.active
ReadTableSheet == wb[active]

\* read_table(region, has_header, auto_detect_header)
ReadTable ==
    /\ pc \in {"hdr_done", "idle_read"}
    /\ \E hh \in BOOLEAN, auto \in BOOLEAN :
          /\ has_header' = hh
          /\ auto_detect_header' = auto
          /\ df' = ReadTableFrame(ReadTableSheet, region, hh, auto)
    /\ wb' = [wb EXCEPT ![active] = Touch(@, region)]
    /\ pc' = "read_done"
    /\ UNCHANGED <<region, offset, header_row, tables, active, sheet_name,
                   allVars, callerVars, kvVars, genVars>>

----------------------------------------------------------------------------
(* read_key_value_region *)

ParameterLabel == Str(<<"P", "a", "r", "a", "m", "e", "t", "e", "r">>)
ValueLabel == Str(<<"V", "a", "l", "u", "e">>)
UnitLabel == Str(<<"U", "n", "i", "t">>)

\* the column labels chosen by len(data[0])
KVColumns(data) ==
    IF Len(data[1]) = 2 THEN <<ParameterLabel, ValueLabel>>
    ELSE IF Len(data[1]) = 3 THEN <<ParameterLabel, ValueLabel, UnitLabel>>
    ELSE RangeIndex(Len(data[1]))

\* df.empty: an axis of length 0
FrameEmpty(frame) == frame.columns = <<>> \/ frame.rows = <<>>

\* SetIndexFirstColumn that keeps only the first row of each label
SetIndexDropDuplicates(frame) ==
    LET keep == SelectSeq([r \in 1..Len(frame.rows) |-> r],
                          LAMBDA r : \A q \in 1..(r - 1) :
                                        frame.rows[q][1] # frame.rows[r][1])
    IN  IndexedFrame(Tail(frame.columns),
                     [k \in 1..Len(keep) |-> frame.rows[keep[k]][1]],
                     [k \in 1..Len(keep) |-> Tail(frame.rows[keep[k]])])

\* df.set_index('Parameter', inplace=True): the first column becomes the row
\* labels and leaves the columns
SetIndexFirstColumn(frame) ==
    IndexedFrame(Tail(frame.columns),
                 [r \in 1..Len(frame.rows) |-> frame.rows[r][1]],
                 [r \in 1..Len(frame.rows) |-> Tail(frame.rows[r])])

\* the body of read_key_value_region on worksheet ws
ReadKeyValueFrame(ws, reg) ==
    LET data == RegionData(ws, reg)
    IN  IF data = <<>> THEN NoFrame
        ELSE LET frame == Frame(KVColumns(data), data)
             IN  IF ~FrameEmpty(frame) /\ frame.columns[1] = ParameterLabel
                 THEN SetIndexFirstColumn(frame)
                 ELSE frame

\* read_key_value_region(sheet_name, region)
ReadKeyValueRegion ==
    /\ pc = "idle_read"
    /\ df' = ReadKeyValueFrame(wb[sheet_name], region)
    /\ wb' = [wb EXCEPT ![sheet_name] = Touch(@, region)]
    /\ pc' = "readkv_done"
    /\ UNCHANGED <<region, offset, header_row, has_header, auto_detect_header,
                   tables, active, sheet_name, allVars, callerVars, kvVars,
                   genVars>>

ReadNext ==
    \/ ReadTable
    \/ ReadKeyValueRegion

\* workbooks and regions offered to the two materialisers: sheet "Data" has
\* three columns and up to ReadMaxRow rows, sheet "Other" is blank; the
\* region starts at column A on a row of the sheet, may have no row
\* (end_row = start_row - 1), and may reach one row or one column past the
\* sheet's extent
ReadColAValues == {None, Str(<<"b">>)}
ReadColBValues == {None, Num(5)}
ReadColCValues == {None, Str(<<"u">>)}
ReadRowKinds ==
    {<<a, b, c>> : a \in ReadColAValues, b \in ReadColBValues, c \in ReadColCValues}
ReadSheets == UNION {[1..n -> ReadRowKinds] : n \in 1..ReadMaxRow}
ReadRegions(ws) ==
    {TableRegion(sr, er, ColA, ec, TableName(1), NoRow) :
        sr \in 1..Len(ws), er \in 0..(Len(ws) + 1), ec \in ColB..(KVEndCol + 1)}

ReadInit ==
    /\ \E ws \in ReadSheets :
          /\ wb = [nm \in SheetNames |-> IF nm = "Data" THEN ws ELSE BlankSheet]
          /\ region \in {reg \in ReadRegions(ws) : reg.end_row >= reg.start_row - 1}
    /\ active \in SheetNames
    /\ sheet_name = "Data"
    /\ pc = "idle_read"
    /\ row_idx = 0
    /\ current_title = None
    /\ current_title_row = NoRow
    /\ current_start = NoRow
    /\ current_end = NoRow
    /\ tables = <<>>
    /\ min_rows = 0
    /\ data_cells = <<>>
    /\ i = 0
    /\ current_region = RunningRegion(NoRow, NoRow, NoRow, NoRow)
    /\ offset = 0
    /\ header_row = NoRow
    /\ has_header = TRUE
    /\ auto_detect_header = TRUE
    /\ df = NoFrame
    /\ key_value = TRUE
    /\ regions = <<>>
    /\ all_tables = <<>>
    /\ first_tables = <<>>
    /\ run = 1

SpecRead == ReadInit /\ [][ReadNext]_vars

----------------------------------------------------------------------------
(* read_all_tables *)

\* the default of detect_tables' min_rows parameter
DefaultMinRows == 2

\* (region.name, FinancialTable(df, style)): the table keeps a copy of df
NamedTable(reg, frame) == [name |-> reg.name, table |-> frame]

\* read_all_tables with the two detectors exchanged
AllCallSwapped ==
    /\ pc = "idle_all"
    /\ \E kv \in BOOLEAN :
          /\ key_value' = kv
          /\ pc' = IF kv THEN "idle_gen" ELSE "idle_kv"
          /\ min_rows' = IF kv THEN DefaultMinRows ELSE min_rows
    /\ regions' = <<>>
    /\ all_tables' = <<>>
    /\ UNCHANGED <<tables, data_cells, i, current_region, bookVars, kvVars,
                   hdrVars, callerVars>>

\* entry of read_all_tables: detect_key_value_tables(sheet_name) if key_value,
\* detect_tables(sheet_name) with the default min_rows otherwise
AllCall ==
    /\ pc = "idle_all"
    /\ \E kv \in BOOLEAN :
          /\ key_value' = kv
          /\ pc' = IF kv THEN "idle_kv" ELSE "idle_gen"
          /\ min_rows' = IF kv THEN min_rows ELSE DefaultMinRows
    /\ regions' = <<>>
    /\ all_tables' = <<>>
    /\ UNCHANGED <<tables, data_cells, i, current_region, bookVars, kvVars,
                   hdrVars, callerVars>>

\* the detector has returned: regions = ..., tables = []
AllDetected ==
    /\ pc \in {"kv_done", "gen_done"}
    /\ regions' = tables
    /\ all_tables' = <<>>
    /\ pc' = "all_loop"
    /\ UNCHANGED <<key_value, tables, bookVars, kvVars, genVars, hdrVars,
                   callerVars>>

\* loop body: read the next region with read_key_value_region(sheet_name,
\* region) or read_table(region), append (region.name, table)
AllReadRegion ==
    /\ pc = "all_loop"
    /\ Len(all_tables) < Len(regions)
    /\ region' = regions[Len(all_tables) + 1]
    /\ IF key_value
       THEN /\ df' = ReadKeyValueFrame(wb[sheet_name], region')
            /\ wb' = [wb EXCEPT ![sheet_name] = Touch(@, region')]
            /\ UNCHANGED <<has_header, auto_detect_header>>
       ELSE /\ has_header' = TRUE
            /\ auto_detect_header' = TRUE
            /\ df' = ReadTableFrame(ReadTableSheet, region', TRUE, TRUE)
            /\ wb' = [wb EXCEPT ![active] = Touch(@, region')]
    /\ all_tables' = Append(all_tables, NamedTable(region', df'))
    /\ UNCHANGED <<pc, key_value, regions, tables, offset, header_row, active,
                   sheet_name, kvVars, genVars, callerVars>>

\* after the loop: return tables
AllReturn ==
    /\ pc = "all_loop"
    /\ Len(all_tables) = Len(regions)
    /\ pc' = "all_done"
    /\ UNCHANGED <<key_value, regions, all_tables, tables, bookVars, kvVars,
                   genVars, hdrVars, callerVars>>

AllNext ==
    \/ AllCall
    \/ KVNext
    \/ GenNext
    \/ AllDetected
    \/ AllReadRegion
    \/ AllReturn

\* workbooks offered to read_all_tables: sheet "Data" has two columns and up
\* to AllMaxRow rows, each a blank, a title, a data or an asymmetric row;
\* sheet "Other" is blank; either sheet is the active one
AllRowKinds ==
    {<<None, None>>, <<Str(<<" ", "b">>), None>>, <<Num(7), Num(5)>>,
     <<None, Num(5)>>}
AllSheets == UNION {[1..n -> AllRowKinds] : n \in 1..AllMaxRow}

AllInit ==
    /\ \E ws \in AllSheets : wb = [nm \in SheetNames |->
                                     IF nm = "Data" THEN ws ELSE BlankSheet]
    /\ active \in SheetNames
    /\ sheet_name = "Data"
    /\ pc = "idle_all"
    /\ IdleLocals

SpecAll == AllInit /\ [][AllNext]_vars

----------------------------------------------------------------------------
(* A caller that runs a detector twice on the same sheet *)

\* between the two detections the caller reads one of the detected regions,
\* with read_key_value_region(sheet_name, region) or read_table(region)
ReadBetween ==
    /\ pc \in {"kv_done", "gen_done"}
    /\ run = 1
    /\ region = NoRegion
    /\ \E k \in 1..Len(tables), kv \in BOOLEAN :
          /\ region' = tables[k]
          /\ IF kv
             THEN /\ df' = ReadKeyValueFrame(wb[sheet_name], region')
                  /\ wb' = [wb EXCEPT ![sheet_name] = Touch(@, region')]
             ELSE /\ df' = ReadTableFrame(ReadTableSheet, region', TRUE, TRUE)
                  /\ wb' = [wb EXCEPT ![active] = Touch(@, region')]
    /\ UNCHANGED <<pc, tables, offset, header_row, has_header,
                   auto_detect_header, active, sheet_name, kvVars, genVars,
                   allVars, callerVars>>

\* the caller keeps the first result and calls the same detector again, with
\* the same min_rows
DetectAgain ==
    /\ pc \in {"kv_done", "gen_done"}
    /\ run = 1
    /\ first_tables' = tables
    /\ run' = 2
    /\ pc' = IF pc = "kv_done" THEN "idle_kv" ELSE "idle_gen"
    /\ UNCHANGED <<tables, bookVars, kvVars, genVars, hdrVars, allVars>>

TwiceNext ==
    \/ DetectNext
    \/ ReadBetween
    \/ DetectAgain

SpecTwice == DetectInit /\ [][TwiceNext]_vars

HdrNext ==
    \/ HdrCall
    \/ HdrSkipRow
    \/ HdrReturnRow
    \/ HdrNextRow
    \/ HdrDefault
    \/ ReadTable

\* workbooks offered to detect_header_row and read_table: on sheet "Data" one
\* blank row, then the region's rows, two columns wide; sheet "Other" is
\* blank; either sheet is the active one
HdrValues == {None, Str(<<"b">>), Num(5)}
HdrRowKinds == {<<a, b>> : a \in HdrValues, b \in HdrValues}
HdrBlocks == UNION {[1..n -> HdrRowKinds] : n \in 1..HdrMaxRow}

HdrInit ==
    /\ \E block \in HdrBlocks :
          /\ wb = [nm \in SheetNames |->
                     IF nm = "Data" THEN <<<<None, None>>>> \o block
                     ELSE BlankSheet]
          /\ region = TableRegion(2, Len(block) + 1, ColA, ColB,
                                  TableName(1), NoRow)
    /\ active \in SheetNames
    /\ sheet_name = "Data"
    /\ pc = "idle_hdr"
    /\ row_idx = 0
    /\ current_title = None
    /\ current_title_row = NoRow
    /\ current_start = NoRow
    /\ current_end = NoRow
    /\ tables = <<>>
    /\ min_rows = 0
    /\ data_cells = <<>>
    /\ i = 0
    /\ current_region = RunningRegion(NoRow, NoRow, NoRow, NoRow)
    /\ offset = 0
    /\ header_row = NoRow
    /\ has_header = TRUE
    /\ auto_detect_header = TRUE
    /\ df = NoFrame
    /\ key_value = TRUE
    /\ regions = <<>>
    /\ all_tables = <<>>
    /\ first_tables = <<>>
    /\ run = 1

SpecHdr == HdrInit /\ [][HdrNext]_vars

----------------------------------------------------------------------------
(* Vocabulary of the properties: row classes, runs of data rows, bands *)

Sheet == wb[sheet_name]
Rows(ws) == 1..Len(ws)

IsTitleRow(ws, r) == ~IsNone(CellAt(ws, r, 1)) /\ IsNone(CellAt(ws, r, 2))
IsDataRow(ws, r) == ~IsNone(CellAt(ws, r, 1)) /\ ~IsNone(CellAt(ws, r, 2))
IsBlankRow(ws, r) == IsNone(CellAt(ws, r, 1)) /\ IsNone(CellAt(ws, r, 2))
IsAsymmetricRow(ws, r) == IsNone(CellAt(ws, r, 1)) /\ ~IsNone(CellAt(ws, r, 2))

NoAsymmetricRow(ws) == \A r \in Rows(ws) : ~IsAsymmetricRow(ws, r)

\* the maximal runs <<first, last>> of consecutive rows drawn from the set good
MaximalRuns(good) ==
    {b \in good \X good :
        /\ b[1] <= b[2]
        /\ \A r \in b[1]..b[2] : r \in good
        /\ (b[1] - 1) \notin good
        /\ (b[2] + 1) \notin good}

DataRuns(ws) == MaximalRuns({r \in Rows(ws) : IsDataRow(ws, r)})

\* the last title row above row r, NoRow when there is none
TitleAbove(ws, r) ==
    LET above == {t \in 1..(r - 1) : IsTitleRow(ws, t)}
    IN  IF above = {} THEN NoRow ELSE MaxOf(above)

TrimmedText(v) == Strip(PyStr(v))

RowPopulated(ws, r) == \E c \in 1..Len(ws[r]) : ~IsNone(ws[r][c])
Bands(ws) == MaximalRuns({r \in Rows(ws) : RowPopulated(ws, r)})
BandOf(ws, r) == CHOOSE b \in Bands(ws) : b[1] <= r /\ r <= b[2]

Span(t) == <<t.start_row, t.end_row>>

\* found lists exactly the runs of the set runs, top to bottom
ListsRuns(found, runs) ==
    /\ Len(found) = Cardinality(runs)
    /\ \A j \in 1..Len(found) : Span(found[j]) \in runs
    /\ \A j \in 2..Len(found) : found[j - 1].start_row < found[j].start_row

AllBlank(ws) == \A r \in Rows(ws) : ~RowPopulated(ws, r)

----------------------------------------------------------------------------
(* Properties of detect_key_value_tables *)

C2_EveryDataRowInOneRegion ==
    pc = "kv_done" =>
        \A r \in Rows(Sheet) :
            IsDataRow(Sheet, r) =>
                Cardinality({j \in 1..Len(tables) :
                    tables[j].start_row <= r /\ r <= tables[j].end_row}) = 1

\* the sheet ends on a data row and the final region ends there
C2_Witness ==
    /\ pc = "kv_done"
    /\ IsDataRow(Sheet, Len(Sheet))
    /\ Len(tables) = 2
    /\ tables[2].end_row = Len(Sheet)

----------------------------------------------------------------------------
(* Properties of detect_tables *)

C4_AtLeastMinRows ==
    pc \in {"gen_loop", "gen_done"} =>
        \A j \in 1..Len(tables) :
            tables[j].end_row - tables[j].start_row + 1 >= min_rows

\* a region of exactly min_rows rows is returned and a shorter band is dropped
C4_Witness ==
    /\ pc = "gen_done"
    /\ min_rows = 2
    /\ \E j \in 1..Len(tables) : tables[j].end_row - tables[j].start_row + 1 = 2
    /\ \E b \in Bands(Sheet) : b[2] = b[1]

\* C5: in the result of either detector, consecutive regions have strictly
\* increasing start rows and disjoint row ranges.
C5_OrderedDisjoint ==
    \A j \in 2..Len(tables) :
        /\ tables[j - 1].start_row < tables[j].start_row
        /\ tables[j - 1].end_row < tables[j].start_row

\* detect_tables returned two regions
C5_Witness ==
    /\ pc = "gen_done"
    /\ Len(tables) = 2

\* C6: on a sheet with no populated cell each detector runs to its return
\* and returns the empty list.
C6_BlankSheetNoRegions ==
    AllBlank(Sheet) =>
        /\ tables = <<>>
        /\ pc \in {"kv_done", "gen_done"} \/ ENABLED DetectNext

\* detect_tables has returned on a sheet of blank rows
C6_Witness ==
    /\ AllBlank(Sheet)
    /\ Len(Sheet) > 1
    /\ pc = "gen_done"
    /\ tables = <<>>

\* the columns that hold a populated cell in rows first..last
ColsPopulated(ws, first, last) ==
    {c \in 1..Len(ws[1]) : \E r \in first..last : ~IsNone(CellAt(ws, r, c))}

\* C10: every region detect_tables returns spans exactly the columns of the
\* populated cells of its own rows.
C10_ColumnsOfOwnRows ==
    pc = "gen_done" =>
        \A j \in 1..Len(tables) :
            LET cols == ColsPopulated(Sheet, tables[j].start_row, tables[j].end_row)
            IN  /\ tables[j].start_col = MinOf(cols)
                /\ tables[j].end_col = MaxOf(cols)

----------------------------------------------------------------------------
(* Properties of detect_header_row and read_table *)

RegionRows(reg) == reg.start_row..reg.end_row

\* the region's row r on the sheet the region was located on
RowOn(r) == RowValues(Sheet, region, r)

AllText(values) == \A c \in DOMAIN values : IsStr(values[c])
AllNumeric(values) == \A c \in DOMAIN values : IsNumeric(values[c])

\* the rows of the region from row first on, in order
RowsFrom(first) ==
    [r \in 1..(region.end_row - first + 1) |-> RowOn(first + r - 1)]

\* C7: for a region whose first row is all text and whose remaining rows
\* (at least one) are all numbers, detect_header_row returns start_row and
\* read_table with auto-detection takes that same row as the column names.
C7_HeaderAgreement ==
    ( /\ pc = "read_done"
      /\ auto_detect_header
      /\ region.end_row > region.start_row
      /\ AllText(RowOn(region.start_row))
      /\ \A r \in RegionRows(region) \ {region.start_row} : AllNumeric(RowOn(r)) )
    => /\ header_row = region.start_row
       /\ df.columns = RowOn(header_row)

\* C8: for a region of n >= 2 rows whose first row is at least half text and
\* whose second row has a number, read_table with auto-detection returns the
\* first row's values as column names and rows 2..n, in order, as data.
C8_FirstRowBecomesHeader ==
    ( /\ pc = "read_done"
      /\ auto_detect_header
      /\ region.end_row > region.start_row
      /\ 2 * StringCount(RowOn(region.start_row)) >= Len(RowOn(region.start_row))
      /\ NumericCount(RowOn(region.start_row + 1)) > 0 )
    => /\ df.columns = RowOn(region.start_row)
       /\ df.rows = RowsFrom(region.start_row + 1)

\* C9: for a region of two or more rows whose cells are all numbers,
\* detect_header_row returns None.
C9_NumericRegionHasNoHeader ==
    ( /\ pc \in {"hdr_done", "read_done"}
      /\ region.end_row > region.start_row
      /\ \A r \in RegionRows(region) : AllNumeric(RowOn(r)) )
    => header_row = NoRow

----------------------------------------------------------------------------
(* Properties of region names *)

\* C11: every region detect_tables returns is named by the trimmed text of
\* the cell at its top-left corner when that cell holds a value (any text or
\* number), and Table_N when the cell is empty.
C11_NameFromTopLeftCell ==
    pc = "gen_done" =>
        \A j \in 1..Len(tables) :
            LET v == CellAt(Sheet, tables[j].start_row, tables[j].start_col)
            IN  tables[j].name = IF IsNone(v) THEN TableName(j)
                                 ELSE TrimmedText(v)

----------------------------------------------------------------------------
(* Properties of read_key_value_region and read_table on arbitrary regions *)

\* the rows of data whose first value is not None, in order
LabelledRows(data) == SelectSeq(data, LAMBDA row : ~IsNone(row[1]))

\* C12: the frame read_key_value_region returns has no row whose label cell
\* (the region's first column) is absent, and has exactly as many rows as the
\* region has rows with a present first-column cell.
C12_AbsentLabelRowsDropped ==
    pc = "readkv_done" =>
        /\ Len(df.rows) = Len(LabelledRows(RegionData(wb[sheet_name], region)))
        /\ \A r \in 1..Len(df.index) : ~IsNone(df.index[r])

\* the region reaches past the last row or the last column of the sheet
BeyondExtent(ws, reg) == reg.end_row > MaxRowOf(ws) \/ reg.end_col > Len(ws[1])

\* C13: neither read_key_value_region nor read_table returns a frame for a
\* region that lies beyond the extent of the sheet it reads at the call; the
\* call fails.
C13_OutOfRangeRegionFails ==
    [][/\ (pc = "idle_read" /\ BeyondExtent(wb[sheet_name], region))
            => pc' # "readkv_done"
       /\ (pc = "idle_read" /\ BeyondExtent(wb[active], region))
            => pc' # "read_done"]_vars

\* no cell of the region holds a value; true of a region without rows
RegionBlank(ws, reg) ==
    LET data == RegionData(ws, reg)
    IN  \A r \in 1..Len(data) : \A c \in 1..Len(data[r]) : IsNone(data[r][c])

\* C14: read_key_value_region and read_table return an empty frame for a
\* region that has no row (start_row > end_row) and for a region all of whose
\* cells are empty.
C14_BlankRegionGivesEmptyFrame ==
    /\ (pc = "readkv_done" /\ RegionBlank(wb[sheet_name], region)) => FrameEmpty(df)
    /\ (pc = "read_done" /\ RegionBlank(wb[active], region)) => FrameEmpty(df)

----------------------------------------------------------------------------
(* Properties of the key-value scan's state *)

\* row t is a title row, row s a data row, and the rows between them are
\* blank rows, at least one
TitleBlanksData(ws, t, s) ==
    /\ t + 1 < s
    /\ IsTitleRow(ws, t)
    /\ IsDataRow(ws, s)
    /\ \A r \in (t + 1)..(s - 1) : IsBlankRow(ws, r)

\* C15 as stated: the region of data rows that follow a title row and one or
\* more blank rows has the title's row as title_row and the title's trimmed
\* text as name, whatever that text is.
C15_TitleSurvivesBlankRowsAnyText ==
    pc = "kv_done" =>
        \A t \in Rows(Sheet), s \in Rows(Sheet) :
            TitleBlanksData(Sheet, t, s) =>
                \E j \in 1..Len(tables) :
                    /\ tables[j].start_row = s
                    /\ tables[j].title_row = t
                    /\ tables[j].name = TrimmedText(KVColA(Sheet, t))

\* C15: a blank row does not clear the open title: the region of data rows
\* that follow a title row and one or more blank rows has the title's row as
\* title_row, and as name the title's trimmed text when that is non-empty and
\* Table_N when it is empty.
C15_TitleSurvivesBlankRows ==
    pc = "kv_done" =>
        \A t \in Rows(Sheet), s \in Rows(Sheet) :
            TitleBlanksData(Sheet, t, s) =>
                \E j \in 1..Len(tables) :
                    /\ tables[j].start_row = s
                    /\ tables[j].title_row = t
                    /\ tables[j].name =
                           IF TrimmedText(KVColA(Sheet, t)) = <<>>
                           THEN TableName(j)
                           ELSE TrimmedText(KVColA(Sheet, t))

C15_Witness ==
    /\ pc = "kv_done"
    /\ \E t \in Rows(Sheet), s \in Rows(Sheet) :
          /\ TitleBlanksData(Sheet, t, s)
          /\ \E j \in 1..Len(tables) :
                tables[j].start_row = s /\ tables[j].title_row = t

\* C16: the open title is cleared when a region is emitted: a returned region
\* with no title row between the end of the region before it and its own
\* first row carries no title_row and has the default name.
C16_TitleClearedAtEmission ==
    pc = "kv_done" =>
        \A j \in 2..Len(tables) :
            (\A r \in (tables[j - 1].end_row + 1)..(tables[j].start_row - 1) :
                ~IsTitleRow(Sheet, r))
            => /\ tables[j].title_row = NoRow
               /\ tables[j].name = TableName(j)

\* C17: the step of the key-value scan over an asymmetric row (A empty, B
\* present) leaves the open title, its row, the open span and the emitted
\* regions unchanged, whatever the detection state.
C17_AsymmetricRowIsSkipped ==
    [][(/\ pc = "kv_scan"
        /\ row_idx <= MaxRowOf(Sheet)
        /\ IsAsymmetricRow(Sheet, row_idx))
       => UNCHANGED <<current_title, current_title_row, current_start,
                      current_end, tables>>]_vars

\* an asymmetric row has just been scanned with a title and a span open
C17_Witness ==
    /\ pc = "kv_scan"
    /\ row_idx > 1
    /\ IsAsymmetricRow(Sheet, row_idx - 1)
    /\ current_title_row # NoRow
    /\ current_start # NoRow

----------------------------------------------------------------------------
(* Shape of the regions *)

\* C18: every region detect_key_value_tables has emitted spans columns 1 to 3,
\* whatever columns of the sheet hold values.
C18_KVColumnsOneToThree ==
    pc \in {"kv_scan", "kv_done"} =>
        \A j \in 1..Len(tables) :
            tables[j].start_col = 1 /\ tables[j].end_col = 3

\* regions were returned for a sheet that has no third column
C18_Witness ==
    /\ pc = "kv_done"
    /\ Len(tables) > 1
    /\ \A r \in Rows(Sheet) : Len(Sheet[r]) < 3

\* C19: every region either detector returns has start_row <= end_row and
\* start_col <= end_col, and a title_row, when it has one, that is above
\* start_row and so outside the region's rows.
C19_RegionWellFormed ==
    pc \in {"kv_done", "gen_done"} =>
        \A j \in 1..Len(tables) :
            /\ tables[j].start_row <= tables[j].end_row
            /\ tables[j].start_col <= tables[j].end_col
            /\ tables[j].title_row # NoRow =>
                  /\ tables[j].title_row < tables[j].start_row
                  /\ tables[j].title_row \notin
                         tables[j].start_row..tables[j].end_row

\* a titled region of several rows was returned after an earlier region
C19_Witness ==
    /\ pc = "kv_done"
    /\ \E j \in 2..Len(tables) :
          /\ tables[j].title_row # NoRow
          /\ tables[j].start_row < tables[j].end_row

\* the text a cell value offers as a name: none for an empty cell
TextAvailable(v) == ~IsNone(v) /\ TrimmedText(v) # <<>>

\* the title text of a key-value region: that of the row its title_row names
KVTitleText(ws, t) ==
    IF t.title_row = NoRow THEN None ELSE KVColA(ws, t.title_row)

\* C20: a region either detector returns is named Table_N, N its position in
\* the returned list, exactly when no name text is available for it: no
\* non-empty title text (key-value), no text in its top-left cell (generic).
C20_DefaultNameIffNoText ==
    /\ pc = "kv_done" =>
          \A j \in 1..Len(tables) :
              tables[j].name = TableName(j)
                  <=> ~TextAvailable(KVTitleText(Sheet, tables[j]))
    /\ pc = "gen_done" =>
          \A j \in 1..Len(tables) :
              tables[j].name = TableName(j)
                  <=> ~TextAvailable(CellAt(Sheet, tables[j].start_row,
                                            tables[j].start_col))

----------------------------------------------------------------------------
(* Properties of the header row detect_header_row returns *)

\* C21: a row index returned by detect_header_row names a row of the region
\* with no empty cell in start_col..end_col.
C21_HeaderRowFullyPopulated ==
    (pc = "hdr_done" /\ header_row # NoRow) =>
        AllPresent(RowValues(Sheet, region, header_row))

\* the rows detect_header_row may inspect: the first three of the region
CheckedRows(reg) ==
    {r \in RegionRows(reg) : r <= reg.start_row + 2}

\* row r has at least half of its cells text and the row below it, inside the
\* region, has a number
TextThenNumeric(r) ==
    /\ r < region.end_row
    /\ 2 * StringCount(RowOn(r)) >= Len(RowOn(r))
    /\ NumericCount(RowOn(r + 1)) > 0

\* row r is a header candidate: fully populated and matching the
\* text-then-numeric rule or, on the region's first row, the all-text rule
HeaderCandidate(r) ==
    /\ AllPresent(RowOn(r))
    /\ \/ TextThenNumeric(r)
       \/ r = region.start_row /\ AllText(RowOn(r))

----------------------------------------------------------------------------
(* Properties of read_table's choice of column names *)

\* the row-1/row-2 test of read_table on the region's own rows
FirstRowTestPasses ==
    /\ region.end_row > region.start_row
    /\ 2 * StringCount(RowOn(region.start_row)) >= Len(RowOn(region.start_row))
    /\ NumericCount(RowOn(region.start_row + 1)) > 0

\* C23: read_table with auto-detection, on a region whose row-1/row-2 test
\* fails (a single row included), returns every row of the region, the first
\* included, in order as data under the column labels 0..k-1; a first row
\* with exactly half of its cells text passes the test and becomes the
\* column names.
C23_NoHeaderKeepsEveryRow ==
    /\ (pc = "read_done" /\ auto_detect_header /\ ~FirstRowTestPasses)
       => /\ df.columns = RangeIndex(region.end_col - region.start_col + 1)
          /\ df.rows = RowsFrom(region.start_row)
    /\ ( /\ pc = "read_done"
         /\ auto_detect_header
         /\ FirstRowTestPasses
         /\ 2 * StringCount(RowOn(region.start_row)) = Len(RowOn(region.start_row)) )
       => df.columns = RowOn(region.start_row)

\* C24: read_table with auto-detection off follows has_header for every
\* region: with has_header the first row gives the column names and the
\* other rows are the data, without it every row is data under the labels
\* 0..k-1, whatever the cells hold and however many rows there are.
C24_HasHeaderIsAuthoritative ==
    (pc = "read_done" /\ ~auto_detect_header) =>
        IF has_header
        THEN /\ df.columns = RowOn(region.start_row)
             /\ df.rows = RowsFrom(region.start_row + 1)
        ELSE /\ df.columns = RangeIndex(region.end_col - region.start_col + 1)
             /\ df.rows = RowsFrom(region.start_row)

----------------------------------------------------------------------------
(* Properties of read_key_value_region's rows *)

\* the region has the two or three columns of a key-value table
KVShaped(reg) == reg.end_col - reg.start_col + 1 \in {2, 3}

\* the rows of the returned frame, each with its label in front, in order
LabelledFrameRows(frame) ==
    [r \in 1..Len(frame.rows) |-> <<frame.index[r]>> \o frame.rows[r]]

\* two rows of the region carry the same present label
HasDuplicateLabel(data) ==
    \E r \in 1..Len(data), q \in 1..Len(data) :
        r < q /\ ~IsNone(data[r][1]) /\ data[r][1] = data[q][1]

\* C25: read_key_value_region does not merge rows that share a label: the
\* labelled rows of the returned frame are the region's rows with a present
\* label, one per source row, in source order, each with its own value and
\* unit.
C25_DuplicateLabelsKept ==
    (pc = "readkv_done" /\ KVShaped(region)) =>
        LabelledRows(LabelledFrameRows(df))
            = LabelledRows(RegionData(Sheet, region))

\* a region whose two rows carry the same label with different values was read
C25_Witness ==
    /\ pc = "readkv_done"
    /\ KVShaped(region)
    /\ HasDuplicateLabel(RegionData(Sheet, region))
    /\ Len(df.rows) = 2
    /\ df.rows[1] # df.rows[2]

----------------------------------------------------------------------------
(* Properties of read_all_tables *)

\* the bands of populated rows that have at least n rows
BandsOfAtLeast(ws, n) == {b \in Bands(ws) : b[2] - b[1] + 1 >= n}

\* C26: read_all_tables returns one (name, table) pair per detected region,
\* in the detector's order, each under its region's name; with key_value the
\* regions are the key-value detector's (columns 1..3, the runs of data rows
\* on a sheet without asymmetric rows) and each table is what
\* read_key_value_region gives for its region; without it the regions are
\* the generic detector's with min_rows 2 (the bands of two or more rows) and
\* each table is what read_table gives for its region.
C26_OnePairPerRegion ==
    pc = "all_done" =>
        /\ regions = tables
        /\ Len(all_tables) = Len(regions)
        /\ \A k \in 1..Len(regions) : all_tables[k].name = regions[k].name
        /\ key_value =>
              /\ \A k \in 1..Len(regions) : regions[k].end_col = KVEndCol
              /\ NoAsymmetricRow(Sheet) => ListsRuns(regions, DataRuns(Sheet))
              /\ \A k \in 1..Len(regions) :
                    all_tables[k].table = ReadKeyValueFrame(Sheet, regions[k])
        /\ ~key_value =>
              /\ ListsRuns(regions, BandsOfAtLeast(Sheet, 2))
              /\ \A k \in 1..Len(regions) :
                    all_tables[k].table =
                        ReadTableFrame(ReadTableSheet, regions[k], TRUE, TRUE)

\* read_all_tables returned two differently named key-value tables
C26_Witness ==
    /\ pc = "all_done"
    /\ key_value
    /\ Len(all_tables) = 2
    /\ all_tables[1].name # all_tables[2].name
    /\ all_tables[1].table # all_tables[2].table

\* C30: every table read_all_tables returns with key_value false is built
\* from the cells of sheet_name at its region's coordinates, whichever sheet
\* of the workbook is the active one.
C30_TablesFromTheNamedSheet ==
    (pc = "all_done" /\ ~key_value) =>
        \A k \in 1..Len(regions) :
            all_tables[k].table = ReadTableFrame(Sheet, regions[k], TRUE, TRUE)

----------------------------------------------------------------------------
(* Repeating a detection *)

\* C27: a second run of detect_key_value_tables, or of detect_tables with
\* the same min_rows, on the same sheet returns the list the first run
\* returned (same length, order, boundaries, names and title rows), also
\* when a detected region was read between the two runs.
C27_SecondRunSameRegions ==
    (run = 2 /\ pc \in {"kv_done", "gen_done"}) => tables = first_tables

\* the second key-value run has returned two regions after a region was read
\* and the read had created the cells of column 3
C27_Witness ==
    /\ run = 2
    /\ pc = "kv_done"
    /\ Len(first_tables) = 2
    /\ region # NoRegion
    /\ Len(Sheet[1]) = 3

----------------------------------------------------------------------------
(* Which rows detect_header_row may return *)

----------------------------------------------------------------------------
(* Rows of a key-value region *)

====
